---- MODULE Spec2Model ----
(***************************************************************************)
(* Event-sourced shopping cart: the aggregate (ShoppingCart), its fold     *)
(* (ShoppingCart.evolve), the repository (EventStoreRepository) and the    *)
(* application service (ShoppingCartService).  Dates and the client id are *)
(* payload that no guard and no fold branch reads; they are left out of    *)
(* the events and of the snapshot.                                         *)
(***************************************************************************)
EXTENDS Integers, Sequences, FiniteSets, TLC

\* ------------------------------------------------------------------ bounds
MaxEvents == 3
MaxQty == 2
MaxFoldLen == 3
MaxRevision == 120
MaxEventsTwo == 3
MaxHeaderLen == 6
MaxHeaderCount == 2

\* ------------------------------------------------------------------ domains
CartIds == {"c1"}
ProductIds == {"P1", "P2"}
UnitPrices == {10, 20}
\* No code checks the sign of a quantity: negative ones are inputs too.
Quantities == (-1)..MaxQty

\* The product lines a command can name: two prices of one product and a
\* second product.
ProductKeys == {<< "P1", 10 >>, << "P1", 20 >>, << "P2", 10 >>}

Undefined == "undefined"

ProductItems ==
  {[productId |-> k[1], unitPrice |-> k[2], quantity |-> q] : k \in ProductKeys, q \in Quantities}

NoItem == [productId |-> "none", unitPrice |-> 0, quantity |-> 0]

\* ShoppingCartStatus
Pending == "Pending"
Confirmed == "Confirmed"
Canceled == "Canceled"

\* ShoppingCartErrors
NONE == "NONE"
CART_IS_ALREADY_CLOSED == "CART_IS_ALREADY_CLOSED"
PRODUCT_ITEM_NOT_FOUND == "PRODUCT_ITEM_NOT_FOUND"
CART_IS_EMPTY == "CART_IS_EMPTY"
UNKNOWN_EVENT_TYPE == "UNKNOWN_EVENT_TYPE"

\* ------------------------------------------------------------------ events
Ev(type, id, item) == [type |-> type, shoppingCartId |-> id, item |-> item]

NoEvent == Ev("none", Undefined, NoItem)

KnownEventTypes == {"ShoppingCartOpened", "ProductItemAddedToShoppingCart",
                    "ProductItemRemovedFromShoppingCart", "ShoppingCartConfirmed",
                    "ShoppingCartCanceled"}

\* ------------------------------------------------------------------ ShoppingCart
\* ShoppingCart.default: every field undefined, _productItems defaults to [].
DefaultCart == [id |-> Undefined, status |-> Undefined, productItems |-> << >>]

\* Array.prototype.find over the product lines: index of the first line with
\* the same productId and unitPrice, 0 when there is none.
FindIndex(items, productId, unitPrice) ==
  IF \E i \in 1..Len(items) : items[i].productId = productId /\ items[i].unitPrice = unitPrice
  THEN CHOOSE i \in 1..Len(items) :
         /\ items[i].productId = productId /\ items[i].unitPrice = unitPrice
         /\ \A j \in 1..(i - 1) : ~(items[j].productId = productId /\ items[j].unitPrice = unitPrice)
  ELSE 0

\* Array.prototype.splice(index, 1)
RemoveAt(items, i) == [j \in 1..(Len(items) - 1) |-> IF j < i THEN items[j] ELSE items[j + 1]]

Thrown(err, state) == [err |-> err, state |-> state]
Returned(state) == [err |-> NONE, state |-> state]

\* A fold that pushes a line for every added item.
evolveProductItemAdded_AlwaysPushes(state, item) ==
  [state EXCEPT !.productItems = Append(@, item)]

\* A fold that looks the line up by productId alone.
evolveProductItemAdded_ByProductId(state, item) ==
  LET same(k) == state.productItems[k].productId = item.productId
      i == IF \E k \in 1..Len(state.productItems) : same(k)
           THEN CHOOSE k \in 1..Len(state.productItems) :
                  same(k) /\ \A j \in 1..(k - 1) : ~same(j)
           ELSE 0
  IN IF i # 0
     THEN [state EXCEPT !.productItems[i].quantity = @ + item.quantity]
     ELSE [state EXCEPT !.productItems = Append(@, item)]

\* ShoppingCart.evolve, case ProductItemAddedToShoppingCart: the quantity is
\* added to the line with the same productId and unitPrice, or a copy of the
\* item is pushed at the end.
evolveProductItemAdded(state, item) ==
  LET i == FindIndex(state.productItems, item.productId, item.unitPrice)
  IN IF i # 0
     THEN [state EXCEPT !.productItems[i].quantity = @ + item.quantity]
     ELSE [state EXCEPT !.productItems = Append(@, item)]

\* A fold that deletes a line only when its quantity falls below zero.
evolveProductItemRemoved_BelowZero(state, item) ==
  LET i == FindIndex(state.productItems, item.productId, item.unitPrice)
  IN IF i = 0
     THEN state
     ELSE LET q == state.productItems[i].quantity - item.quantity
          IN IF q < 0
             THEN [state EXCEPT !.productItems = RemoveAt(@, i)]
             ELSE [state EXCEPT !.productItems[i].quantity = q]

\* ShoppingCart.evolve, case ProductItemRemovedFromShoppingCart: no line, no
\* change; else the quantity is subtracted and the line spliced out when the
\* result is zero or below.
evolveProductItemRemoved(state, item) ==
  LET i == FindIndex(state.productItems, item.productId, item.unitPrice)
  IN IF i = 0
     THEN state
     ELSE LET q == state.productItems[i].quantity - item.quantity
          IN IF q <= 0
             THEN [state EXCEPT !.productItems = RemoveAt(@, i)]
             ELSE [state EXCEPT !.productItems[i].quantity = q]

\* ShoppingCart.evolve: one step of the fold; the result carries the error
\* thrown by the default branch, or NONE and the new snapshot.
evolve(state, event) ==
  CASE event.type = "ShoppingCartOpened" ->
         Returned([state EXCEPT !.id = event.shoppingCartId,
                                !.status = Pending,
                                !.productItems = << >>])
    [] event.type = "ProductItemAddedToShoppingCart" ->
         Returned(evolveProductItemAdded(state, event.item))
    [] event.type = "ProductItemRemovedFromShoppingCart" ->
         Returned(evolveProductItemRemoved(state, event.item))
    [] event.type = "ShoppingCartConfirmed" ->
         Returned([state EXCEPT !.status = Confirmed])
    [] event.type = "ShoppingCartCanceled" ->
         Returned([state EXCEPT !.status = Canceled])
    [] OTHER -> Thrown(UNKNOWN_EVENT_TYPE, state)

\* events.reduce(evolve, initial): left fold, an exception ends it.
RECURSIVE Reduce(_, _)
Reduce(events, acc) ==
  IF events = << >> \/ acc.err # NONE
  THEN acc
  ELSE Reduce(Tail(events), evolve(acc.state, Head(events)))

\* An assertion that lets a cart through unless it is confirmed or canceled.
assertIsPending_ClosedOnly(cart) ==
  IF cart.status \in {Confirmed, Canceled} THEN CART_IS_ALREADY_CLOSED ELSE NONE

\* An assertion that lets a confirmed cart through.
assertIsPending_OnlyCanceled(cart) ==
  IF cart.status = Canceled THEN CART_IS_ALREADY_CLOSED ELSE NONE

\* ShoppingCart.assertIsPending
assertIsPending(cart) ==
  IF cart.status # Pending THEN CART_IS_ALREADY_CLOSED ELSE NONE

\* An assertion that also rejects the removal of a whole line.
assertProductItemExists_Strict(cart, item) ==
  LET i == FindIndex(cart.productItems, item.productId, item.unitPrice)
      currentQuantity == IF i = 0 THEN 0 ELSE cart.productItems[i].quantity
  IN IF currentQuantity <= item.quantity THEN PRODUCT_ITEM_NOT_FOUND ELSE NONE

\* ShoppingCart.assertProductItemExists: the quantity of the matching line
\* (0 when there is none) must not be below the requested quantity.
assertProductItemExists(cart, item) ==
  LET i == FindIndex(cart.productItems, item.productId, item.unitPrice)
      currentQuantity == IF i = 0 THEN 0 ELSE cart.productItems[i].quantity
  IN IF currentQuantity < item.quantity THEN PRODUCT_ITEM_NOT_FOUND ELSE NONE

\* An assertion that never throws.
assertIsNotEmpty_Never(cart) == NONE

\* ShoppingCart.assertIsNotEmpty
assertIsNotEmpty(cart) ==
  IF Len(cart.productItems) = 0 THEN CART_IS_EMPTY ELSE NONE

Emitted(event) == [err |-> NONE, event |-> event]
Rejected(err) == [err |-> err, event |-> NoEvent]

\* ShoppingCart.open: no assertion.
open(cart, shoppingCartId) ==
  Emitted(Ev("ShoppingCartOpened", shoppingCartId, NoItem))

\* ShoppingCart.addProductItem
addProductItem(cart, item) ==
  IF assertIsPending(cart) # NONE THEN Rejected(assertIsPending(cart))
  ELSE Emitted(Ev("ProductItemAddedToShoppingCart", cart.id, item))

\* ShoppingCart.removeProductItem
removeProductItem(cart, item) ==
  IF assertIsPending(cart) # NONE THEN Rejected(assertIsPending(cart))
  ELSE IF assertProductItemExists(cart, item) # NONE
       THEN Rejected(assertProductItemExists(cart, item))
       ELSE Emitted(Ev("ProductItemRemovedFromShoppingCart", cart.id, item))

\* ShoppingCart.confirm
confirm(cart) ==
  IF assertIsPending(cart) # NONE THEN Rejected(assertIsPending(cart))
  ELSE IF assertIsNotEmpty(cart) # NONE
       THEN Rejected(assertIsNotEmpty(cart))
       ELSE Emitted(Ev("ShoppingCartConfirmed", cart.id, NoItem))

\* ShoppingCart.cancel
cancel(cart) ==
  IF assertIsPending(cart) # NONE THEN Rejected(assertIsPending(cart))
  ELSE Emitted(Ev("ShoppingCartCanceled", cart.id, NoItem))

\* ------------------------------------------------------------------ event store
\* EventStore.readStream: the events of the stream, none for an unknown id.
readStream(store, id) == store[id]

\* EventStore.appendToStream(id, events): the repository passes no expected
\* revision, so the events are appended at the end of the stream as it is.
appendToStream(store, id, events) == [store EXCEPT ![id] = @ \o events]

\* ------------------------------------------------------------------ repository
\* EventStoreRepository.find
find(store, id) == Reduce(readStream(store, id), Returned(DefaultCart))

\* ------------------------------------------------------------------ the fold, object by object
\* evolve writes to the object it is given and to the line objects in it.
\* A heap is the snapshot under construction (err, state), for each of its
\* lines the position in the stream of the event whose productItem object
\* the line is (refs, 0 for an object of its own), and the events read from
\* the store, which a write through such a line would change.
Heap(err, state, refs, events) ==
  [err |-> err, state |-> state, refs |-> refs, events |-> events]

\* A push of the event's own productItem object.
pushedRef_SameObject(k) == k

\* ShoppingCart.evolve, push({ ...event.productItem }): the line pushed for
\* the event at position k is a copy, an object of its own.
pushedRef(k) == 0

\* An initial state shared by all the folds.
getInitialState_Shared(earlier) == earlier

\* getInitialState, ShoppingCart.default: a new object at each call, whatever
\* an earlier fold left.
getInitialState(earlier) == [state |-> DefaultCart, refs |-> << >>]

\* The events after quantity q is written to the line object ref.
WriteThrough(events, ref, q) ==
  IF ref = 0 THEN events ELSE [events EXCEPT ![ref].item.quantity = q]

\* ShoppingCart.evolve applied to the event at position k, with the objects
\* it writes to.
evolveInPlace(h, k) ==
  LET event == h.events[k]
      next == evolve(h.state, event)
      i == FindIndex(h.state.productItems, event.item.productId, event.item.unitPrice)
  IN CASE event.type = "ShoppingCartOpened" ->
            Heap(next.err, next.state, << >>, h.events)
       [] event.type = "ProductItemAddedToShoppingCart" ->
            IF i # 0
            THEN Heap(next.err, next.state, h.refs,
                      WriteThrough(h.events, h.refs[i],
                                   h.state.productItems[i].quantity + event.item.quantity))
            ELSE Heap(next.err, next.state, Append(h.refs, pushedRef(k)), h.events)
       [] event.type = "ProductItemRemovedFromShoppingCart" ->
            IF i = 0
            THEN Heap(next.err, next.state, h.refs, h.events)
            ELSE LET q == h.state.productItems[i].quantity - event.item.quantity
                 IN Heap(next.err, next.state,
                         IF q <= 0 THEN RemoveAt(h.refs, i) ELSE h.refs,
                         WriteThrough(h.events, h.refs[i], q))
       [] OTHER -> Heap(next.err, next.state, h.refs, h.events)

RECURSIVE ReduceInPlace(_, _)
ReduceInPlace(h, k) ==
  IF k > Len(h.events) \/ h.err # NONE
  THEN h
  ELSE ReduceInPlace(evolveInPlace(h, k), k + 1)

\* EventStoreRepository.find with the objects it writes to: the snapshot it
\* returns and the store it leaves.  readStream hands out the stored events.
findInPlace(store, id, earlier) ==
  LET initial == getInitialState(earlier)
      h == ReduceInPlace(Heap(NONE, initial.state, initial.refs, readStream(store, id)), 1)
  IN [err |-> h.err, state |-> h.state, refs |-> h.refs,
      store |-> [store EXCEPT ![id] = h.events]]

\* A store that appends the events twice.
storeEvents_Twice(store, id, events) ==
  IF Len(events) = 0 THEN store ELSE appendToStream(store, id, events \o events)

\* A store that calls appendToStream whatever the number of events.
storeAppends_Always(id, events) == << [id |-> id, events |-> events] >>

\* EventStoreRepository.store: the calls of appendToStream it makes, none
\* for no event, else one with all the events.
storeAppends(id, events) ==
  IF Len(events) = 0 THEN << >> ELSE << [id |-> id, events |-> events] >>

\* EventStoreRepository.store: the store after those calls.
storeEvents(store, id, events) ==
  LET calls == storeAppends(id, events)
  IN IF Len(calls) = 0
     THEN store
     ELSE appendToStream(store, calls[1].id, calls[1].events)

\* ------------------------------------------------------------------ commands
Cmd(type, id, item) == [type |-> type, shoppingCartId |-> id, item |-> item]

NoCmd == Cmd("none", Undefined, NoItem)

\* toShoppingCartStreamName: the prefix followed by the cart id.
toShoppingCartStreamName(shoppingCartId) == << "shopping_cart-" >> \o << shoppingCartId >>

\* The handler ShoppingCartService passes to ApplicationService.on.
handle(cart, cmd) ==
  CASE cmd.type = "Open" -> open(cart, cmd.shoppingCartId)
    [] cmd.type = "AddProductItem" -> addProductItem(cart, cmd.item)
    [] cmd.type = "RemoveProductItem" -> removeProductItem(cart, cmd.item)
    [] cmd.type = "Confirm" -> confirm(cart)
    [] cmd.type = "Cancel" -> cancel(cart)

\* A service whose repository keeps every cart in the stream of c1.
on_OneStream(store, cmd) ==
  LET aggregate == find(store, "c1")
  IN IF aggregate.err # NONE
     THEN [err |-> aggregate.err, store |-> store]
     ELSE LET result == handle(aggregate.state, cmd)
          IN IF result.err # NONE
             THEN [err |-> result.err, store |-> store]
             ELSE [err |-> NONE, store |-> storeEvents(store, "c1", << result.event >>)]

\* ApplicationService.on: find, handle, store; an exception of find or of the
\* handler leaves the store as it was.
on(store, cmd) ==
  LET aggregate == find(store, cmd.shoppingCartId)
  IN IF aggregate.err # NONE
     THEN [err |-> aggregate.err, store |-> store]
     ELSE LET result == handle(aggregate.state, cmd)
          IN IF result.err # NONE
             THEN [err |-> result.err, store |-> store]
             ELSE [err |-> NONE,
                   store |-> storeEvents(store, cmd.shoppingCartId, << result.event >>)]

\* ------------------------------------------------------------------ getShoppingCart (core/http.ts)
\* ShoppingCartStatus of core/http.ts
Opened == "Opened"

\* The productItems field of the state getShoppingCart folds: a list of
\* lines, or undefined while no shopping-cart-opened event has set it.
ItemList(lines) == [defined |-> TRUE, lines |-> lines]
UndefinedList == [defined |-> FALSE, lines |-> << >>]

\* The state StreamAggregator starts from: an object with no field set.
EmptyObject == [id |-> Undefined, status |-> Undefined, productItems |-> UndefinedList]

\* The error of reading the lines of an undefined list.
TYPE_ERROR == "TypeError"

\* productItem.addProductItem: the list with the item merged into the line of
\* the same productId and unitPrice, or appended.
addProductItemToList(productItems, item) ==
  LET i == FindIndex(productItems, item.productId, item.unitPrice)
  IN IF i # 0
     THEN [productItems EXCEPT ![i].quantity = @ + item.quantity]
     ELSE Append(productItems, item)

\* productItem.removeProductItem: the list with the quantity taken from the
\* line; no line, no change; zero or below, no line.
removeProductItemFromList(productItems, item) ==
  LET i == FindIndex(productItems, item.productId, item.unitPrice)
  IN IF i = 0
     THEN productItems
     ELSE IF productItems[i].quantity - item.quantity <= 0
          THEN RemoveAt(productItems, i)
          ELSE [productItems EXCEPT ![i].quantity = @ - item.quantity]

\* The reducer given to StreamAggregator in getShoppingCart: a new state per
\* event.  The added and removed branches hand currentState.productItems to
\* addProductItem and removeProductItem, which fail on an undefined list; the
\* confirmed branch copies the state as it is; the default branch logs and
\* returns the current state.
when(currentState, event) ==
  CASE event.type = "shopping-cart-opened" ->
         Returned([id |-> event.shoppingCartId, status |-> Opened,
                   productItems |-> ItemList(<< >>)])
    [] event.type = "product-item-added-to-shopping-cart" ->
         IF ~currentState.productItems.defined
         THEN Thrown(TYPE_ERROR, currentState)
         ELSE Returned([currentState EXCEPT !.productItems =
                          ItemList(addProductItemToList(@.lines, event.item))])
    [] event.type = "product-item-removed-from-shopping-cart" ->
         IF ~currentState.productItems.defined
         THEN Thrown(TYPE_ERROR, currentState)
         ELSE Returned([currentState EXCEPT !.productItems =
                          ItemList(removeProductItemFromList(@.lines, event.item))])
    [] event.type = "shopping-cart-confirmed" ->
         Returned([currentState EXCEPT !.status = Confirmed])
    [] OTHER -> Returned(currentState)

\* ------------------------------------------------------------------ ETag (core/http.ts)
\* A string is the sequence of its characters.
Quote == "\""
DigitChars == << "0", "1", "2", "3", "4", "5", "6", "7", "8", "9" >>

IsDigit(c) == \E d \in 1..10 : DigitChars[d] = c

DigitValue(c) == (CHOOSE d \in 1..10 : DigitChars[d] = c) - 1

\* Number to string in a template literal: the decimal digits.
RECURSIVE ToDecimal(_)
ToDecimal(n) ==
  IF n < 10 THEN << DigitChars[n + 1] >>
  ELSE ToDecimal(n \div 10) \o << DigitChars[(n % 10) + 1] >>

\* HeaderNames
IF_MATCH == "if-match"
IF_NOT_MATCH == "if-not-match"
HeaderNames == {IF_MATCH, IF_NOT_MATCH}

\* ETagErrors, and the failure of the unsigned-integer conversion
WRONG_WEAK_ETAG_FORMAT == "WRONG_WEAK_ETAG_FORMAT"
MISSING_HEADER == "MISSING_HEADER"
NOT_AN_UNSIGNED_BIGINT == "NOT_AN_UNSIGNED_BIGINT"

\* The line terminators of a regular expression: line feed, carriage return,
\* and the line and paragraph separators U+2028 and U+2029, each one character.
LineTerminators == {"\n", "\r", "U+2028", "U+2029"}

\* The match of WeakETagRegex, /W\/"(\d+.*)"/, that starts at position p of
\* etag can end with the quote at position l: W/" at p, a digit next, and up
\* to l only characters that . matches, that is no line terminator.
MatchEndsAt(etag, p, l) ==
  /\ p + 4 <= l /\ l <= Len(etag)
  /\ etag[p] = "W" /\ etag[p + 1] = "/" /\ etag[p + 2] = Quote
  /\ IsDigit(etag[p + 3])
  /\ \A k \in (p + 4)..(l - 1) : etag[k] \notin LineTerminators
  /\ etag[l] = Quote

\* WeakETagRegex can match at position p of etag.
MatchesAt(etag, p) == \E l \in (p + 4)..Len(etag) : MatchEndsAt(etag, p, l)

\* WeakETagRegex.exec: the leftmost position where the regex matches (0: no
\* match) and its group 1, which the greedy .* extends up to the last quote
\* the match can end with.
MatchStart(etag) ==
  IF \E p \in 1..Len(etag) : MatchesAt(etag, p)
  THEN CHOOSE p \in 1..Len(etag) :
         MatchesAt(etag, p) /\ \A o \in 1..(p - 1) : ~MatchesAt(etag, o)
  ELSE 0

LastQuote(etag) ==
  CHOOSE l \in 1..Len(etag) :
    /\ MatchEndsAt(etag, MatchStart(etag), l)
    /\ \A o \in (l + 1)..Len(etag) : ~MatchEndsAt(etag, MatchStart(etag), o)

Group1(etag) == SubSeq(etag, MatchStart(etag) + 3, LastQuote(etag) - 1)

\* isWeakETag
isWeakETag(etag) == MatchStart(etag) # 0

Value(v) == [err |-> NONE, defined |-> TRUE, value |-> v]
UndefinedValue == [err |-> NONE, defined |-> FALSE, value |-> << >>]
Throws(err) == [err |-> err, defined |-> FALSE, value |-> << >>]

\* getWeakETagValue
getWeakETagValue(etag) ==
  IF MatchStart(etag) = 0 THEN Throws(WRONG_WEAK_ETAG_FORMAT) ELSE Value(Group1(etag))

\* An encoder that leaves the quotes out.
toWeakETag_NoQuotes(value) == << "W", "/" >> \o ToDecimal(value)

\* toWeakETag
toWeakETag(value) == << "W", "/", Quote >> \o ToDecimal(value) \o << Quote >>

\* A request header: absent, or its value.
AbsentHeader == [present |-> FALSE, array |-> FALSE, value |-> << >>, list |-> << >>]
Header(value) == [present |-> TRUE, array |-> FALSE, value |-> value, list |-> << >>]

\* A request header given as an array of strings.
HeaderArray(list) == [present |-> TRUE, array |-> TRUE, value |-> << >>, list |-> list]

\* getETagFromHeader
getETagFromHeader(request, headerName) ==
  LET etag == request[headerName]
  IN IF ~etag.present THEN UndefinedValue
     ELSE IF etag.array
          THEN IF Len(etag.list) = 0 THEN UndefinedValue ELSE Value(etag.list[1])
          ELSE Value(etag.value)

\* getWeakETagValueFromHeader
getWeakETagValueFromHeader(request, headerName) ==
  LET etag == getETagFromHeader(request, headerName)
  IN IF ~etag.defined THEN UndefinedValue
     ELSE IF ~isWeakETag(etag.value) THEN Throws(WRONG_WEAK_ETAG_FORMAT)
          ELSE getWeakETagValue(etag.value)

RECURSIVE DecimalValue(_)
DecimalValue(digits) ==
  IF digits = << >> THEN 0
  ELSE 10 * DecimalValue(SubSeq(digits, 1, Len(digits) - 1)) + DigitValue(digits[Len(digits)])

\* validation.assertUnsignedBigInt: the number a string of decimal digits
\* writes; any other string is refused.
assertUnsignedBigInt(value) ==
  IF value # << >> /\ \A k \in 1..Len(value) : IsDigit(value[k])
  THEN [err |-> NONE, defined |-> TRUE, value |-> DecimalValue(value)]
  ELSE [err |-> NOT_AN_UNSIGNED_BIGINT, defined |-> FALSE, value |-> 0]

NoRevision == [err |-> NONE, defined |-> FALSE, value |-> 0]
ThrowsRevision(err) == [err |-> err, defined |-> FALSE, value |-> 0]

\* An adapter that takes a missing header for revision zero.
getExpectedRevision_ZeroWhenAbsent(request, headerName) ==
  LET eTag == getWeakETagValueFromHeader(request, headerName)
  IN IF eTag.err # NONE THEN ThrowsRevision(eTag.err)
     ELSE IF ~eTag.defined THEN [err |-> NONE, defined |-> TRUE, value |-> 0]
          ELSE assertUnsignedBigInt(eTag.value)

\* getExpectedRevision
getExpectedRevision(request, headerName) ==
  LET eTag == getWeakETagValueFromHeader(request, headerName)
  IN IF eTag.err # NONE THEN ThrowsRevision(eTag.err)
     ELSE IF ~eTag.defined THEN NoRevision
          ELSE assertUnsignedBigInt(eTag.value)

\* getExpectedRevisionFromIfMatch
getExpectedRevisionFromIfMatch(request) ==
  LET revision == getExpectedRevision(request, IF_MATCH)
  IN IF revision.err = NONE /\ ~revision.defined
     THEN ThrowsRevision(MISSING_HEADER)
     ELSE revision

\* getExpectedRevisionFromIfNotMatch
getExpectedRevisionFromIfNotMatch(request) == getExpectedRevision(request, IF_NOT_MATCH)

\* ------------------------------------------------------------------ state
\* streams: the event store, one stream per cart id.
\* lastCmd, lastResult, before: the last call made on the service or on the
\*   repository, its outcome (NONE or the error thrown) and the store it found.
\* log, acc: an event sequence being folded and the accumulator of the fold.
\* hpc, hagg, hrev, hres: per caller of the service, where it stands (idle,
\*   done: it has made a call), and for its last call the aggregate and the
\*   revision find read and the outcome.
\* hlog, hacc: an event sequence being folded by getShoppingCart and the
\*   current state of that fold.
\* reads: what the finds made since the last append returned, in order.
\* request, headerName: the headers of a request and the conditional header
\*   the boundary reads; encoded: the revision the header was minted from by
\*   toWeakETag (-1: a header of the client's own); weak, expected, revision:
\*   what getWeakETagValueFromHeader, getExpectedRevision and
\*   getExpectedRevisionFromIfMatch / IfNotMatch return for it; epc: idle,
\*   request (received), done (decoded).
\* lastStored, lastAppends: the events given to the last direct call of
\*   EventStoreRepository.store and the appendToStream calls it made.
VARIABLES streams, lastCmd, lastResult, before, log, acc,
          hpc, hagg, hrev, hres, hlog, hacc,
          lastStored, lastAppends, reads,
          request, headerName, encoded, weak, expected, revision, epc

vars == << streams, lastCmd, lastResult, before, log, acc,
           hpc, hagg, hrev, hres, hlog, hacc,
           lastStored, lastAppends, reads,
           request, headerName, encoded, weak, expected, revision, epc >>

repoVars == << lastStored, lastAppends >>
etagVars == << request, headerName, encoded, weak, expected, revision, epc >>
extVars == << repoVars, reads, etagVars >>

svcVars == << streams, lastCmd, lastResult, before >>
histVars == << lastCmd, lastResult, before >>
foldVars == << log, acc >>
concVars == << hpc, hagg, hrev, hres >>
httpVars == << hlog, hacc >>

Handlers == {"h1", "h2"}

RECURSIVE SumLen(_, _)
SumLen(store, ids) ==
  IF ids = {} THEN 0
  ELSE LET id == CHOOSE x \in ids : TRUE
       IN Len(store[id]) + SumLen(store, ids \ {id})

TotalEvents(store) == SumLen(store, DOMAIN store)

InitService ==
  /\ streams = [id \in CartIds |-> << >>]
  /\ lastCmd = NoCmd
  /\ lastResult = NONE
  /\ before = [id \in CartIds |-> << >>]

InitFold ==
  /\ log = << >>
  /\ acc = Returned(DefaultCart)

InitHandlers ==
  /\ hpc = [h \in Handlers |-> "idle"]
  /\ hagg = [h \in Handlers |-> DefaultCart]
  /\ hrev = [h \in Handlers |-> -1]
  /\ hres = [h \in Handlers |-> "none"]

InitHttp ==
  /\ hlog = << >>
  /\ hacc = Returned(EmptyObject)

InitRepo ==
  /\ lastStored = << >>
  /\ lastAppends = << >>

InitReads == reads = << >>

InitETag ==
  /\ request = [n \in HeaderNames |-> AbsentHeader]
  /\ headerName = IF_MATCH
  /\ encoded = -1
  /\ weak = UndefinedValue
  /\ expected = NoRevision
  /\ revision = NoRevision
  /\ epc = "idle"

Init ==
  /\ InitService /\ InitFold /\ InitHandlers /\ InitHttp /\ InitRepo /\ InitReads
  /\ InitETag

\* One call of a ShoppingCartService method; lastCmd, lastResult and before
\* record the call, its outcome and the store it found.  The store is capped
\* at MaxEvents events.
Service(cmd) ==
  /\ TotalEvents(on(streams, cmd).store) <= MaxEvents
  /\ streams' = on(streams, cmd).store
  /\ lastResult' = on(streams, cmd).err
  /\ lastCmd' = cmd
  /\ before' = streams
  /\ UNCHANGED << foldVars, concVars, httpVars, extVars >>

Open(id) == Service(Cmd("Open", id, NoItem))

AddProductItem(id, item) == Service(Cmd("AddProductItem", id, item))

RemoveProductItem(id, item) == Service(Cmd("RemoveProductItem", id, item))

Confirm(id) == Service(Cmd("Confirm", id, NoItem))

Cancel(id) == Service(Cmd("Cancel", id, NoItem))

\* A read of the cart: EventStoreRepository.find called on its own.
Find(id) ==
  /\ lastResult' = find(streams, id).err
  /\ lastCmd' = Cmd("Find", id, NoItem)
  /\ before' = streams
  /\ UNCHANGED << streams, foldVars, concVars, httpVars, extVars >>

Next ==
  \/ \E id \in CartIds : Open(id)
  \/ \E id \in CartIds, item \in ProductItems : AddProductItem(id, item)
  \/ \E id \in CartIds, item \in ProductItems : RemoveProductItem(id, item)
  \/ \E id \in CartIds : Confirm(id)
  \/ \E id \in CartIds : Cancel(id)
  \/ \E id \in CartIds : Find(id)

Spec == Init /\ [][Next]_vars

\* The snapshot a read of the cart returns, now and before the last call.
Cart(id) == find(streams, id).state

CartBefore(id) == find(before, id).state

\* Stream revision: index of the last event, -1 for no event.
Revision(store, id) == Len(store[id]) - 1

\* ------------------------------------------------------------------ two carts
TwoCartIds == {"c1", "c2"}

\* The items of the commands for the two carts: one product at one price.
TwoCartItems == {item \in ProductItems : item.productId = "P1" /\ item.unitPrice = 10}

\* An event store with a stream for each of two carts, both empty.
InitTwo ==
  /\ streams = [id \in TwoCartIds |-> << >>]
  /\ lastCmd = NoCmd
  /\ lastResult = NONE
  /\ before = [id \in TwoCartIds |-> << >>]
  /\ InitFold /\ InitHandlers /\ InitHttp /\ InitRepo /\ InitReads /\ InitETag

\* One call of a ShoppingCartService method for either cart; the store is
\* capped at MaxEventsTwo events.
ServiceTwo(cmd) ==
  /\ TotalEvents(on(streams, cmd).store) <= MaxEventsTwo
  /\ streams' = on(streams, cmd).store
  /\ lastResult' = on(streams, cmd).err
  /\ lastCmd' = cmd
  /\ before' = streams
  /\ UNCHANGED << foldVars, concVars, httpVars, extVars >>

NextTwo ==
  \/ \E id \in TwoCartIds : ServiceTwo(Cmd("Open", id, NoItem))
  \/ \E id \in TwoCartIds, item \in TwoCartItems : ServiceTwo(Cmd("AddProductItem", id, item))
  \/ \E id \in TwoCartIds, item \in TwoCartItems : ServiceTwo(Cmd("RemoveProductItem", id, item))
  \/ \E id \in TwoCartIds : ServiceTwo(Cmd("Confirm", id, NoItem))
  \/ \E id \in TwoCartIds : ServiceTwo(Cmd("Cancel", id, NoItem))

SpecTwo == InitTwo /\ [][NextTwo]_vars

\* ------------------------------------------------------------------ folding any sequence
\* Every event a stream can hold, validated or not, and one of a type the
\* fold does not know.
FoldEvents ==
  {Ev(t, "c1", NoItem) : t \in {"ShoppingCartOpened", "ShoppingCartConfirmed",
                                "ShoppingCartCanceled", "Unknown"}}
  \cup {Ev(t, "c1", item) : t \in {"ProductItemAddedToShoppingCart",
                                   "ProductItemRemovedFromShoppingCart"},
                            item \in ProductItems}

\* One step of events.reduce(evolve, getInitialState()) in
\* EventStoreRepository.find; the exception of evolve ends the fold.
EvolveStep(event) ==
  /\ Len(log) < MaxFoldLen
  /\ acc.err = NONE
  /\ acc' = evolve(acc.state, event)
  /\ log' = Append(log, event)
  /\ UNCHANGED << svcVars, concVars, httpVars, extVars >>

NextFold == \E event \in FoldEvents : EvolveStep(event)

SpecFold == Init /\ [][NextFold]_vars

\* ------------------------------------------------------------------ two callers, one stream
\* The cart the callers work on.
SharedCart == "c1"

Commands ==
  {Cmd(t, SharedCart, NoItem) : t \in {"Open", "Confirm", "Cancel"}}
  \cup {Cmd(t, SharedCart, item) : t \in {"AddProductItem", "RemoveProductItem"},
                                   item \in ProductItems}

\* One call of ApplicationService.on by caller h: find, handle and store run
\* as one synchronous call, so no other caller runs between its read and its
\* append.  The caller notes the aggregate and the revision it read and the
\* outcome of the call.
HOn(h, cmd) ==
  /\ TotalEvents(on(streams, cmd).store) <= MaxEvents
  /\ hagg' = [hagg EXCEPT ![h] = find(streams, SharedCart).state]
  /\ hrev' = [hrev EXCEPT ![h] = Revision(streams, SharedCart)]
  /\ hres' = [hres EXCEPT ![h] = on(streams, cmd).err]
  /\ streams' = on(streams, cmd).store
  /\ hpc' = [hpc EXCEPT ![h] = "done"]
  /\ UNCHANGED << histVars, foldVars, httpVars, extVars >>

NextConc == \E h \in Handlers, cmd \in Commands : HOn(h, cmd)

SpecConc == Init /\ [][NextConc]_vars

\* ------------------------------------------------------------------ getShoppingCart
HttpFoldEvents ==
  {Ev(t, "c1", NoItem) : t \in {"shopping-cart-opened", "shopping-cart-confirmed",
                                "shopping-cart-cancelled"}}
  \cup {Ev(t, "c1", item) : t \in {"product-item-added-to-shopping-cart",
                                   "product-item-removed-from-shopping-cart"},
                            item \in ProductItems}

\* One step of the aggregator over getShoppingCart's reducer; an exception
\* of the reducer ends the fold.
WhenStep(event) ==
  /\ Len(hlog) < MaxFoldLen
  /\ hacc.err = NONE
  /\ hacc' = when(hacc.state, event)
  /\ hlog' = Append(hlog, event)
  /\ UNCHANGED << svcVars, foldVars, concVars, extVars >>

NextHttpFold == \E event \in HttpFoldEvents : WhenStep(event)

SpecHttpFold == Init /\ [][NextHttpFold]_vars

\* ------------------------------------------------------------------ the repository called directly
\* The events a caller hands to store: the repository reads none of their
\* fields.
StoreEvents ==
  {Ev(t, "c1", NoItem) : t \in {"ShoppingCartOpened", "ShoppingCartConfirmed",
                                "ShoppingCartCanceled"}}
  \cup {Ev("ProductItemAddedToShoppingCart", "c1", item) :
          item \in {i \in ProductItems : i.quantity = 1}}

StoreArguments ==
  {<< >>} \cup {<< e >> : e \in StoreEvents} \cup {<< e, f >> : e, f \in StoreEvents}

\* One call of EventStoreRepository.store(id, ...events).
Store(id, events) ==
  /\ TotalEvents(storeEvents(streams, id, events)) <= MaxEvents
  /\ streams' = storeEvents(streams, id, events)
  /\ lastStored' = events
  /\ lastAppends' = storeAppends(id, events)
  /\ lastCmd' = Cmd("Store", id, NoItem)
  /\ lastResult' = NONE
  /\ before' = streams
  /\ UNCHANGED << foldVars, concVars, httpVars, reads, etagVars >>

NextRepo ==
  \/ \E id \in CartIds, events \in StoreArguments : Store(id, events)
  \/ \E id \in CartIds : Find(id)

SpecRepo == Init /\ [][NextRepo]_vars

\* ------------------------------------------------------------------ reading a stream twice
\* The events the store is filled with before it is read: every event type,
\* the items those of one product at its two prices.
ReadEvents == {event \in FoldEvents : event.item = NoItem \/ event.item.productId = "P1"}

\* EventStore.appendToStream of one event of any type, before any read.
Appended(id, event) ==
  /\ reads = << >>
  /\ Len(streams[id]) < MaxFoldLen
  /\ streams' = appendToStream(streams, id, << event >>)
  /\ UNCHANGED << histVars, foldVars, concVars, httpVars, repoVars, reads, etagVars >>

\* EventStoreRepository.find, with what the fold wrote to the stored events.
FindAgain(id) ==
  /\ Len(reads) < 2
  /\ LET earlier == IF reads = << >>
                    THEN [state |-> DefaultCart, refs |-> << >>]
                    ELSE [state |-> reads[Len(reads)].state, refs |-> reads[Len(reads)].refs]
         r == findInPlace(streams, id, earlier)
     IN /\ streams' = r.store
        /\ reads' = Append(reads, [err |-> r.err, state |-> r.state, refs |-> r.refs])
        /\ lastResult' = r.err
  /\ lastCmd' = Cmd("Find", id, NoItem)
  /\ before' = streams
  /\ UNCHANGED << foldVars, concVars, httpVars, repoVars, etagVars >>

NextRead ==
  \/ \E id \in CartIds, event \in ReadEvents : Appended(id, event)
  \/ \E id \in CartIds : FindAgain(id)

SpecRead == Init /\ [][NextRead]_vars

\* ------------------------------------------------------------------ conditional headers
HeaderChars == {"W", "/", Quote, "1", "a", "\n"}

RECURSIVE StringsOfLen(_)
StringsOfLen(n) ==
  IF n = 0 THEN {<< >>}
  ELSE {Append(str, c) : str \in StringsOfLen(n - 1), c \in HeaderChars}

\* A request whose conditional header name carries the ETag the server
\* minted with toWeakETag for revision r.
SendMinted(name, r) ==
  /\ epc = "idle"
  /\ request' = [request EXCEPT ![name] = Header(toWeakETag(r))]
  /\ headerName' = name
  /\ encoded' = r
  /\ epc' = "request"
  /\ UNCHANGED << svcVars, foldVars, concVars, httpVars, repoVars, reads,
                  weak, expected, revision >>

\* A request whose conditional header is any string of n characters.
SendAny(name, n) ==
  /\ epc = "idle"
  /\ \E value \in StringsOfLen(n) :
       request' = [request EXCEPT ![name] = Header(value)]
  /\ headerName' = name
  /\ encoded' = -1
  /\ epc' = "request"
  /\ UNCHANGED << svcVars, foldVars, concVars, httpVars, repoVars, reads,
                  weak, expected, revision >>

\* The strings a header array is made of: minted ETags, a string that is no
\* weak ETag, and the empty string.
ArrayStrings == {toWeakETag(7), toWeakETag(8), << "a" >>, << >>}

RECURSIVE ArraysOfLen(_)
ArraysOfLen(n) ==
  IF n = 0 THEN {<< >>}
  ELSE {Append(list, str) : list \in ArraysOfLen(n - 1), str \in ArrayStrings}

\* A request whose conditional header is an array of n strings.
SendArray(name, n) ==
  /\ epc = "idle"
  /\ \E list \in ArraysOfLen(n) :
       request' = [request EXCEPT ![name] = HeaderArray(list)]
  /\ headerName' = name
  /\ encoded' = -1
  /\ epc' = "request"
  /\ UNCHANGED << svcVars, foldVars, concVars, httpVars, repoVars, reads,
                  weak, expected, revision >>

\* A request without the conditional header.
SendNone(name) ==
  /\ epc = "idle"
  /\ headerName' = name
  /\ encoded' = -1
  /\ epc' = "request"
  /\ UNCHANGED << svcVars, foldVars, concVars, httpVars, repoVars, reads,
                  request, weak, expected, revision >>

\* The boundary reads the expected revision of the request.
Decode ==
  /\ epc = "request"
  /\ weak' = getWeakETagValueFromHeader(request, headerName)
  /\ expected' = getExpectedRevision(request, headerName)
  /\ revision' = IF headerName = IF_MATCH
                 THEN getExpectedRevisionFromIfMatch(request)
                 ELSE getExpectedRevisionFromIfNotMatch(request)
  /\ epc' = "done"
  /\ UNCHANGED << svcVars, foldVars, concVars, httpVars, repoVars, reads,
                  request, headerName, encoded >>

NextETag ==
  \/ \E name \in HeaderNames, r \in 0..MaxRevision : SendMinted(name, r)
  \/ \E name \in HeaderNames, n \in 0..MaxHeaderLen : SendAny(name, n)
  \/ \E name \in HeaderNames, n \in 0..MaxHeaderCount : SendArray(name, n)
  \/ \E name \in HeaderNames : SendNone(name)
  \/ Decode

SpecETag == Init /\ [][NextETag]_vars

TypeOK ==
  /\ \A id \in CartIds : Len(streams[id]) <= MaxEvents
  /\ lastResult \in {NONE, CART_IS_ALREADY_CLOSED, PRODUCT_ITEM_NOT_FOUND, CART_IS_EMPTY}
  /\ acc = Reduce(log, Returned(DefaultCart))

\* ================================================================== claims
IsServiceCall == lastCmd.type \in {"Open", "AddProductItem", "RemoveProductItem",
                                   "Confirm", "Cancel"}

Closed == {Confirmed, Canceled}

\* The line of the cart the last command names, before the call (0: none).
LineBefore ==
  FindIndex(CartBefore(lastCmd.shoppingCartId).productItems,
            lastCmd.item.productId, lastCmd.item.unitPrice)

\* C1: once the folded status of a cart is Confirmed or Canceled, no service
\* call changes it.
C1_StatusIsTerminal ==
  IsServiceCall =>
    \A id \in CartIds :
      CartBefore(id).status \in Closed => Cart(id).status = CartBefore(id).status

\* C3: an Open for a cart whose stream already holds an event fails and
\* appends no event.
C3_OpenExistingFails ==
  (lastCmd.type = "Open" /\ Len(before[lastCmd.shoppingCartId]) >= 1) =>
    (lastResult # NONE /\ streams = before)

\* C4: on a Confirmed or Canceled cart, AddProductItem, RemoveProductItem,
\* Confirm and Cancel fail with CART_IS_ALREADY_CLOSED and the stream is left
\* as it was.
C4_ClosedCartRejects ==
  (/\ lastCmd.type \in {"AddProductItem", "RemoveProductItem", "Confirm", "Cancel"}
   /\ CartBefore(lastCmd.shoppingCartId).status \in Closed) =>
    (lastResult = CART_IS_ALREADY_CLOSED /\ streams = before)

C4_Witness ==
  /\ lastCmd.type \in {"AddProductItem", "RemoveProductItem", "Confirm", "Cancel"}
  /\ CartBefore(lastCmd.shoppingCartId).status = Confirmed
  /\ lastResult = CART_IS_ALREADY_CLOSED

\* C5: Confirm on a Pending cart with no product line fails with
\* CART_IS_EMPTY and appends nothing; every ShoppingCartConfirmed event of a
\* stream follows a prefix whose fold has at least one product line.
C5_ConfirmEmptyFails ==
  /\ (/\ lastCmd.type = "Confirm"
      /\ CartBefore(lastCmd.shoppingCartId).status = Pending
      /\ Len(CartBefore(lastCmd.shoppingCartId).productItems) = 0) =>
       (/\ lastResult = CART_IS_EMPTY
        /\ streams = before
        /\ Revision(streams, lastCmd.shoppingCartId) = Revision(before, lastCmd.shoppingCartId))
  /\ \A id \in CartIds : \A k \in 1..Len(streams[id]) :
       streams[id][k].type = "ShoppingCartConfirmed" =>
         Len(Reduce(SubSeq(streams[id], 1, k - 1), Returned(DefaultCart)).state.productItems) >= 1

C5_Witness ==
  /\ lastCmd.type = "Confirm"
  /\ CartBefore(lastCmd.shoppingCartId).status = Pending
  /\ Len(CartBefore(lastCmd.shoppingCartId).productItems) = 0
  /\ lastResult = CART_IS_EMPTY
  /\ Revision(streams, lastCmd.shoppingCartId) = 0

\* C6: RemoveProductItem on a Pending cart that has the line fails with
\* PRODUCT_ITEM_NOT_FOUND, the stream unchanged, when the line's quantity is
\* below the requested one, and is accepted when it is not.
C6_RemoveExceedingFails ==
  (/\ lastCmd.type = "RemoveProductItem"
   /\ CartBefore(lastCmd.shoppingCartId).status = Pending
   /\ LineBefore # 0) =>
    LET id == lastCmd.shoppingCartId
        lineQuantity == CartBefore(id).productItems[LineBefore].quantity
    IN IF lineQuantity < lastCmd.item.quantity
       THEN /\ lastResult = PRODUCT_ITEM_NOT_FOUND
            /\ streams = before
            /\ Revision(streams, id) = Revision(before, id)
       ELSE /\ lastResult = NONE
            /\ streams[id] =
                 Append(before[id], Ev("ProductItemRemovedFromShoppingCart", id, lastCmd.item))

C6_Witness ==
  /\ lastCmd.type = "RemoveProductItem"
  /\ CartBefore(lastCmd.shoppingCartId).status = Pending
  /\ LineBefore # 0
  /\ CartBefore(lastCmd.shoppingCartId).productItems[LineBefore].quantity = 1
  /\ lastCmd.item.quantity = 2
  /\ lastResult = PRODUCT_ITEM_NOT_FOUND

\* C8: a read of a cart whose stream is absent or empty does not return a
\* snapshot: it signals that the cart was not found.
C8_EmptyStreamNotFound ==
  (lastCmd.type = "Find" /\ Len(before[lastCmd.shoppingCartId]) = 0) => lastResult # NONE

\* C10: an accepted command appends exactly one event (the revision grows by
\* one, from -1 to 0 for the Open of a fresh cart), a rejected one leaves the
\* store as it was, and Open, Add, Confirm on a fresh cart give revisions 0, 1,
\* 2 with status Pending, Pending, Confirmed.
StatusAt(events, k) == Reduce(SubSeq(events, 1, k), Returned(DefaultCart)).state.status

C10_OneEventPerAcceptedCommand ==
  IsServiceCall =>
    LET id == lastCmd.shoppingCartId IN
    /\ lastResult = NONE =>
         /\ Len(streams[id]) = Len(before[id]) + 1
         /\ SubSeq(streams[id], 1, Len(before[id])) = before[id]
         /\ Revision(streams, id) = Revision(before, id) + 1
         /\ \A other \in CartIds \ {id} : streams[other] = before[other]
    /\ lastResult # NONE => streams = before
    /\ (lastCmd.type = "Open" /\ before[id] = << >>) =>
         (lastResult = NONE /\ Revision(streams, id) = 0)
    /\ (/\ Len(streams[id]) = 3
        /\ streams[id][1].type = "ShoppingCartOpened"
        /\ streams[id][2].type = "ProductItemAddedToShoppingCart"
        /\ streams[id][3].type = "ShoppingCartConfirmed") =>
         /\ StatusAt(streams[id], 1) = Pending
         /\ StatusAt(streams[id], 2) = Pending
         /\ StatusAt(streams[id], 3) = Confirmed

C10_Witness ==
  /\ lastCmd.type = "Confirm"
  /\ lastResult = NONE
  /\ Revision(before, lastCmd.shoppingCartId) = 1
  /\ Revision(streams, lastCmd.shoppingCartId) = 2
  /\ before[lastCmd.shoppingCartId][2].type = "ProductItemAddedToShoppingCart"
  /\ Cart(lastCmd.shoppingCartId).status = Confirmed

\* C7: in the snapshot of any folded event sequence no line has a negative
\* quantity, and a line that a remove brings to zero or below is gone.
C7_NoNegativeQuantity ==
  acc.err = NONE =>
    /\ \A i \in 1..Len(acc.state.productItems) : acc.state.productItems[i].quantity >= 0
    /\ (log # << >> /\ log[Len(log)].type = "ProductItemRemovedFromShoppingCart") =>
         LET prior == Reduce(SubSeq(log, 1, Len(log) - 1), Returned(DefaultCart)).state
             item == log[Len(log)].item
             i == FindIndex(prior.productItems, item.productId, item.unitPrice)
         IN (i # 0 /\ prior.productItems[i].quantity - item.quantity <= 0) =>
              /\ FindIndex(acc.state.productItems, item.productId, item.unitPrice) = 0
              /\ Len(acc.state.productItems) = Len(prior.productItems) - 1

\* Two callers that read the stream at the same revision and both appended.
BothAppended(a, b) ==
  /\ a # b
  /\ hpc[a] = "done" /\ hpc[b] = "done"
  /\ hrev[a] = hrev[b]
  /\ hres[a] = NONE /\ hres[b] = NONE

\* No two calls of ApplicationService.on append after reading the same
\* revision: the append of one moves the revision before the other reads.
NoSharedReadRevision == \A a, b \in Handlers : ~BothAppended(a, b)

\* C9: the fold of a sequence that holds an event of an unknown type returns
\* no snapshot: it fails with UNKNOWN_EVENT_TYPE.
C9_UnknownEventIsFatal ==
  /\ (\E k \in 1..Len(hlog) : hlog[k].type = "shopping-cart-cancelled") =>
       hacc.err = UNKNOWN_EVENT_TYPE
  /\ (\E k \in 1..Len(log) : log[k].type = "Unknown") =>
       acc.err = UNKNOWN_EVENT_TYPE

\* C11: a store of no event makes no appendToStream call and leaves every
\* stream as it was; a store of events makes one call with all of them.
C11_EmptyStoreIsNoOp ==
  lastCmd.type = "Store" =>
    /\ lastStored = << >> => (lastAppends = << >> /\ streams = before)
    /\ lastStored # << >> =>
         /\ Len(lastAppends) = 1
         /\ lastAppends[1].events = lastStored
         /\ streams[lastCmd.shoppingCartId] = before[lastCmd.shoppingCartId] \o lastStored

C11_Witness ==
  /\ lastCmd.type = "Store"
  /\ lastStored = << >>
  /\ lastAppends = << >>
  /\ Len(streams[lastCmd.shoppingCartId]) >= 1
  /\ streams = before

\* C12: two finds over an unchanged stream return the same snapshot (or the
\* same error), and a find leaves the stored events as they were.
C12_FoldTwiceSameSnapshot ==
  /\ Len(reads) >= 1 => streams = before
  /\ Len(reads) = 2 =>
       /\ reads[2].err = reads[1].err
       /\ reads[2].state = reads[1].state
  /\ \A n \in 1..Len(reads) :
       /\ reads[n].err = find(before, lastCmd.shoppingCartId).err
       /\ reads[n].state = find(before, lastCmd.shoppingCartId).state

C12_Witness ==
  /\ Len(reads) = 2
  /\ reads[2].err = NONE
  /\ Len(reads[2].state.productItems) = 1
  /\ reads[2].state.productItems[1].quantity = 2
  /\ \A k \in 1..Len(streams["c1"]) : streams["c1"][k].item.quantity <= 1

\* The last event folded, its item, and the snapshot it was folded into.
LastEvent == log[Len(log)]

Prior == Reduce(SubSeq(log, 1, Len(log) - 1), Returned(DefaultCart)).state

SameKey(line, item) == line.productId = item.productId /\ line.unitPrice = item.unitPrice

\* The lines of the prior snapshot with the key of the last event's item.
Matching == {i \in 1..Len(Prior.productItems) : SameKey(Prior.productItems[i], LastEvent.item)}

FirstMatching == CHOOSE i \in Matching : \A j \in Matching : i <= j

\* C16: folding a ProductItemAdded event adds its quantity to the line with
\* the same productId and unitPrice and adds no line, or, when there is no
\* such line, appends one line, the item, at the end; every other line keeps
\* its quantity and its position among the others.
C16_FoldOfAdded ==
  (log # << >> /\ acc.err = NONE /\ LastEvent.type = "ProductItemAddedToShoppingCart") =>
    LET lines == Prior.productItems
        after == acc.state.productItems
    IN /\ acc.state.status = Prior.status /\ acc.state.id = Prior.id
       /\ Matching # {} =>
            /\ Len(after) = Len(lines)
            /\ after[FirstMatching] =
                 [lines[FirstMatching] EXCEPT !.quantity = @ + LastEvent.item.quantity]
            /\ \A j \in 1..Len(lines) : j # FirstMatching => after[j] = lines[j]
       /\ Matching = {} =>
            /\ Len(after) = Len(lines) + 1
            /\ after[Len(after)] = LastEvent.item
            /\ \A j \in 1..Len(lines) : after[j] = lines[j]

C16_Witness ==
  /\ Len(log) = 3 /\ acc.err = NONE
  /\ LastEvent.type = "ProductItemAddedToShoppingCart"
  /\ LastEvent.item.quantity = 2
  /\ Len(Prior.productItems) = 2
  /\ Matching = {1}
  /\ Prior.productItems[2].productId = LastEvent.item.productId
  /\ acc.state.productItems[1].quantity = 3

\* C17: folding a ProductItemRemoved event subtracts its quantity from the
\* line with the same productId and unitPrice and deletes the line when the
\* result is zero or below, the other lines staying as they are; with no such
\* line the snapshot is unchanged; and Add(P, q) folded into a snapshot with
\* no line for P, followed by Remove(P, q), gives that snapshot back.
C17_FoldOfRemoved ==
  (log # << >> /\ acc.err = NONE /\ LastEvent.type = "ProductItemRemovedFromShoppingCart") =>
    LET lines == Prior.productItems
        after == acc.state.productItems
        k == FirstMatching
        q == lines[k].quantity - LastEvent.item.quantity
    IN /\ Matching = {} => acc.state = Prior
       /\ (Matching # {} /\ q > 0) =>
            acc.state = [Prior EXCEPT !.productItems[k].quantity = q]
       /\ (Matching # {} /\ q <= 0) =>
            /\ Len(after) = Len(lines) - 1
            /\ \A j \in 1..Len(after) : after[j] = IF j < k THEN lines[j] ELSE lines[j + 1]
            /\ \A j \in 1..Len(after) : ~SameKey(after[j], LastEvent.item)
            /\ acc.state.status = Prior.status /\ acc.state.id = Prior.id
       /\ (/\ Len(log) >= 2
           /\ log[Len(log) - 1] = [LastEvent EXCEPT !.type = "ProductItemAddedToShoppingCart"]
           /\ LET start == Reduce(SubSeq(log, 1, Len(log) - 2), Returned(DefaultCart)).state
              IN \A j \in 1..Len(start.productItems) :
                   ~SameKey(start.productItems[j], LastEvent.item)) =>
            /\ \A j \in 1..Len(after) : ~SameKey(after[j], LastEvent.item)
            /\ acc.state = Reduce(SubSeq(log, 1, Len(log) - 2), Returned(DefaultCart)).state

C17_Witness ==
  /\ Len(log) = 3 /\ acc.err = NONE
  /\ log[1].type = "ProductItemAddedToShoppingCart"
  /\ log[2].type = "ProductItemAddedToShoppingCart"
  /\ LastEvent.type = "ProductItemRemovedFromShoppingCart"
  /\ log[2].item = LastEvent.item
  /\ LastEvent.item.quantity = 2
  /\ ~SameKey(log[1].item, LastEvent.item)
  /\ acc.state.productItems = << log[1].item >>

\* C18: RemoveProductItem on a Pending cart with no line of the given
\* productId and unitPrice fails with PRODUCT_ITEM_NOT_FOUND, whatever the
\* non-negative quantity asked, and appends no event.
C18_RemoveAbsentLineFails ==
  (/\ lastCmd.type = "RemoveProductItem"
   /\ lastCmd.item.quantity >= 0
   /\ CartBefore(lastCmd.shoppingCartId).status = Pending
   /\ LineBefore = 0) =>
    (lastResult = PRODUCT_ITEM_NOT_FOUND /\ streams = before)

\* C20: every stream that holds an event begins with ShoppingCartOpened:
\* AddProductItem, RemoveProductItem, Confirm and Cancel for a cart whose
\* stream is empty are rejected and append nothing.
C20_StreamsBeginWithOpened ==
  /\ \A id \in DOMAIN streams :
       streams[id] # << >> => streams[id][1].type = "ShoppingCartOpened"
  /\ (/\ lastCmd.type \in {"AddProductItem", "RemoveProductItem", "Confirm", "Cancel"}
      /\ before[lastCmd.shoppingCartId] = << >>) =>
       /\ CartBefore(lastCmd.shoppingCartId) = DefaultCart
       /\ lastResult = CART_IS_ALREADY_CLOSED
       /\ streams = before

C20_Witness ==
  /\ lastCmd.type = "RemoveProductItem"
  /\ lastCmd.item.quantity = 0
  /\ before[lastCmd.shoppingCartId] = << >>
  /\ lastResult = CART_IS_ALREADY_CLOSED
  /\ streams[lastCmd.shoppingCartId] = << >>

\* The store the last call found, with every stream but that of the cart it
\* names emptied.
BeforeAlone ==
  [id \in DOMAIN before |-> IF id = lastCmd.shoppingCartId THEN before[id] ELSE << >>]

\* C19: a service call for one cart, accepted or rejected, leaves the stream
\* and the folded state of every other cart as they were, and its outcome
\* and the events it appends are those it has when the other streams are
\* empty; two cart ids never share a stream name.
C19_IsolatedByStreamId ==
  /\ IsServiceCall =>
       /\ \A other \in DOMAIN streams \ {lastCmd.shoppingCartId} :
            /\ streams[other] = before[other]
            /\ find(streams, other) = find(before, other)
       /\ lastResult = on(BeforeAlone, lastCmd).err
       /\ streams[lastCmd.shoppingCartId] =
            on(BeforeAlone, lastCmd).store[lastCmd.shoppingCartId]
  /\ \A a \in DOMAIN streams, b \in DOMAIN streams :
       a # b => toShoppingCartStreamName(a) # toShoppingCartStreamName(b)

C19_Witness ==
  /\ lastCmd.type = "AddProductItem"
  /\ lastCmd.shoppingCartId = "c2"
  /\ lastResult = NONE
  /\ Len(before["c1"]) = 1
  /\ streams["c1"] = before["c1"]
  /\ Len(before["c2"]) = 1
  /\ Len(streams["c2"]) = 2

\* C21: in the snapshot of every folded event sequence that starts with
\* ShoppingCartOpened, no two product lines have the same productId and the
\* same unitPrice.
C21_UniqueLineKeys ==
  (log # << >> /\ log[1].type = "ShoppingCartOpened") =>
    \A i \in 1..Len(acc.state.productItems), j \in 1..Len(acc.state.productItems) :
      SameKey(acc.state.productItems[i], acc.state.productItems[j]) => i = j

C21_Witness ==
  /\ Len(log) = 3 /\ acc.err = NONE
  /\ log[1].type = "ShoppingCartOpened"
  /\ log[2].type = "ProductItemAddedToShoppingCart"
  /\ log[3].type = "ProductItemAddedToShoppingCart"
  /\ SameKey(log[2].item, log[3].item)
  /\ log[2].item.quantity = 1 /\ log[3].item.quantity = 1
  /\ Len(acc.state.productItems) = 1
  /\ acc.state.productItems[1].quantity = 2

\* Whether the conditional header carries an ETag (an empty array carries
\* none), the ETag it carries (the first of an array), and the exact form
\* W/"<decimal digits>".
HasETag ==
  /\ request[headerName].present
  /\ request[headerName].array => request[headerName].list # << >>

HeaderValue ==
  IF request[headerName].array THEN request[headerName].list[1] ELSE request[headerName].value

ExactForm(etag) ==
  /\ Len(etag) >= 5
  /\ etag[1] = "W" /\ etag[2] = "/" /\ etag[3] = Quote /\ etag[Len(etag)] = Quote
  /\ \A k \in 4..(Len(etag) - 1) : IsDigit(etag[k])

RECURSIVE Pow10(_)
Pow10(n) == IF n = 0 THEN 1 ELSE 10 * Pow10(n - 1)

\* The number the digits between the quotes of an exact-form ETag write.
RECURSIVE Written(_, _)
Written(etag, k) ==
  IF k > Len(etag) - 1 THEN 0
  ELSE DigitValue(etag[k]) * Pow10(Len(etag) - 1 - k) + Written(etag, k + 1)

\* C13: toWeakETag(r) is W/"<r>": W/", the decimal digits of r and no other,
\* and a quote; decoding it gives r back.
C13_RevisionRoundTrip ==
  encoded >= 0 =>
    /\ ExactForm(HeaderValue)
    /\ Written(HeaderValue, 4) = encoded
    /\ (Len(HeaderValue) > 5 => HeaderValue[4] # "0")
    /\ epc = "done" =>
         /\ weak = Value(SubSeq(HeaderValue, 4, Len(HeaderValue) - 1))
         /\ expected = [err |-> NONE, defined |-> TRUE, value |-> encoded]
         /\ revision = expected

C13_Witness ==
  /\ epc = "done"
  /\ encoded = 107
  /\ revision.defined /\ revision.value = 107

\* C14: a header value that is not exactly W/"<decimal digits>" is rejected
\* with WRONG_WEAK_ETAG_FORMAT and gives no revision.
C14_MalformedRejected ==
  (epc = "done" /\ HasETag /\ ~ExactForm(HeaderValue)) =>
    /\ ~isWeakETag(HeaderValue)
    /\ weak.err = WRONG_WEAK_ETAG_FORMAT
    /\ ~revision.defined

\* C15 as stated: with no such header, if-match or if-not-match, the adapter
\* yields no expected revision and no error.
C15_AbsentMeansNoExpectation ==
  (epc = "done" /\ ~request[headerName].present) =>
    (revision.err = NONE /\ ~revision.defined)

\* C15: with no such header (none, or an empty array), getExpectedRevision
\* (either name) and
\* getExpectedRevisionFromIfNotMatch yield no expected revision and no error,
\* and getExpectedRevisionFromIfMatch throws MISSING_HEADER; none yields
\* revision zero.
C15_AbsentHeader ==
  (epc = "done" /\ ~HasETag) =>
    /\ expected = NoRevision
    /\ weak = UndefinedValue
    /\ headerName = IF_NOT_MATCH => revision = NoRevision
    /\ headerName = IF_MATCH => revision = ThrowsRevision(MISSING_HEADER)
    /\ ~revision.defined

C15_Witness ==
  /\ epc = "done"
  /\ ~request[headerName].present
  /\ headerName = IF_NOT_MATCH
  /\ revision.err = NONE /\ ~revision.defined

====
